---- MODULE Spec2Model ----
(***************************************************************************)
(* Model of cashflow_analysis.py: a linear script that loads a workbook,   *)
(* extracts three scenario sheets, derives metrics, reads a break-even     *)
(* sheet, renders a dashboard and exports two CSV tables.                  *)
(*                                                                         *)
(* Numbers are exact rationals [num, den] (den > 0); the three non-finite  *)
(* results of a numpy float division are den = 0: inf = 1/0, -inf = -1/0,  *)
(* nan = 0/0.  A Python name that is not bound yet is <<>>, a bound one is *)
(* <<value>>.  Amounts are carried in millions of rupiah.                   *)
(***************************************************************************)
EXTENDS Integers, Sequences, FiniteSets, TLC

\* ------------------------------------------------------------------ bounds
\* Largest amount (in model units) written in a varied spreadsheet cell.
MaxAmt == 2
\* Largest number of cells left empty at once in a sheet of SpecExtract.
MaxEmpty == 2

\* --------------------------------------------------------------- constants
FirstCol == 2
EndCol == 11
MonthRow == 4
OpeningRow == 5
InflowsRow == 13
OutflowsRow == 25
NetCfRow == 27
ClosingRow == 29
BeTransactionsRow == 10
BeRevenueRow == 11
CurrentRevenueRow == 14
SafetyMarginRow == 18
BeCol == 2

\* ----------------------------------------------------------------- numbers
Abs(n) == IF n < 0 THEN 0 - n ELSE n

Sign(n) == IF n > 0 THEN 1 ELSE IF n < 0 THEN 0 - 1 ELSE 0

RECURSIVE Gcd(_, _)
Gcd(a, b) == IF b = 0 THEN a ELSE Gcd(b, a % b)

\* The number n/d (d # 0) in lowest terms with a positive denominator.
Rat(n, d) ==
    LET g == Gcd(Abs(n), Abs(d))
        s == IF d < 0 THEN 0 - 1 ELSE 1
    IN  [num |-> s * (n \div g), den |-> Abs(d) \div g]

RInt(n) == [num |-> n, den |-> 1]

Zero == RInt(0)
One == RInt(1)
Hundred == RInt(100)

Inf == [num |-> 1, den |-> 0]
NegInf == [num |-> 0 - 1, den |-> 0]
NaN == [num |-> 0, den |-> 0]

IsFinite(x) == x.den > 0
IsNaN(x) == x.den = 0 /\ x.num = 0

\* float addition, subtraction, multiplication
RAdd(x, y) ==
    IF IsNaN(x) \/ IsNaN(y) THEN NaN
    ELSE IF ~IsFinite(x) /\ ~IsFinite(y) THEN (IF x = y THEN x ELSE NaN)
    ELSE IF ~IsFinite(x) THEN x
    ELSE IF ~IsFinite(y) THEN y
    ELSE Rat(x.num * y.den + y.num * x.den, x.den * y.den)

RNeg(x) == [num |-> 0 - x.num, den |-> x.den]

RSub(x, y) == RAdd(x, RNeg(y))

RMul(x, y) ==
    IF IsNaN(x) \/ IsNaN(y) THEN NaN
    ELSE IF ~IsFinite(x) \/ ~IsFinite(y)
         THEN (IF x.num = 0 \/ y.num = 0 THEN NaN
               ELSE [num |-> Sign(x.num) * Sign(y.num), den |-> 0])
    ELSE Rat(x.num * y.num, x.den * y.den)

\* numpy true division of finite scalars: x/0 is inf, -inf or nan (a
\* RuntimeWarning, silenced by warnings.filterwarnings), never an exception.
RDiv(x, y) ==
    IF IsNaN(x) \/ IsNaN(y) \/ (~IsFinite(x) /\ ~IsFinite(y)) THEN NaN
    ELSE IF ~IsFinite(y) THEN Zero
    ELSE IF ~IsFinite(x) THEN (IF x.num * Sign(y.num) < 0 THEN NegInf ELSE Inf)
    ELSE IF y.num = 0
         THEN (IF x.num > 0 THEN Inf ELSE IF x.num < 0 THEN NegInf ELSE NaN)
    ELSE Rat(x.num * y.den, x.den * y.num)

\* x > y; every comparison with nan is False.
RGt(x, y) ==
    IF IsNaN(x) \/ IsNaN(y) THEN FALSE
    ELSE IF ~IsFinite(x) /\ ~IsFinite(y) THEN x.num > y.num
    ELSE IF ~IsFinite(x) THEN x.num > 0
    ELSE IF ~IsFinite(y) THEN y.num < 0
    ELSE x.num * y.den > y.num * x.den

\* ------------------------------------------------------------------- cells
\* A cell value as openpyxl returns it: None, a number or a string.
None == [t |-> "none", q |-> Zero, s |-> ""]
Num(q) == [t |-> "num", q |-> q, s |-> ""]
Str(s) == [t |-> "str", q |-> Zero, s |-> s]

\* Python truthiness of a cell value.
Truthy(v) ==
    CASE v.t = "none" -> FALSE
      [] v.t = "num" -> v.q.num # 0
      [] OTHER -> v.s # ""

\* ws.cell(row, col).value: a cell never written is None.
CellValue(ws, row, col) ==
    IF <<row, col>> \in DOMAIN ws THEN ws[<<row, col>>] ELSE None

\* value or 0
OrZero(v) == IF Truthy(v) THEN v ELSE Num(Zero)

\* month_val if month_val else f"Month {col-1}"
MonthOf(v, col) == IF Truthy(v) THEN v ELSE Str("Month " \o ToString(col - 1))

\* Mutant of ColRange: range(1, 10), the columns counted from 1.
ColRangeFromOne == [i \in 1..(EndCol - FirstCol) |-> FirstCol + i - 2]

\* range(2, 11) as the ascending sequence of its columns
ColRange == [i \in 1..(EndCol - FirstCol) |-> FirstCol + i - 1]

\* one "for col in range(2, 11): xs.append(ws.cell(row, col).value or 0)"
ReadRow(ws, row) == [i \in DOMAIN ColRange |-> OrZero(CellValue(ws, row, ColRange[i]))]

ReadMonths(ws) ==
    [i \in DOMAIN ColRange |-> MonthOf(CellValue(ws, MonthRow, ColRange[i]), ColRange[i])]

\* extract_scenario_data on a sheet that exists: the DataFrame, column by column
extract_scenario_data(ws) ==
    [Month |-> ReadMonths(ws),
     Opening_Balance |-> ReadRow(ws, OpeningRow),
     Total_Inflows |-> ReadRow(ws, InflowsRow),
     Total_Outflows |-> ReadRow(ws, OutflowsRow),
     Net_Cash_Flow |-> ReadRow(ws, NetCfRow),
     Closing_Balance |-> ReadRow(ws, ClosingRow)]

\* ------------------------------------------------------- column statistics
RECURSIVE SumTo(_, _)
SumTo(col, n) == IF n = 0 THEN Zero ELSE RAdd(SumTo(col, n - 1), col[n].q)

\* Series.sum()
Sum(col) == SumTo(col, Len(col))

\* Series.mean(): the sum over the count
Mean(col) == RDiv(Sum(col), RInt(Len(col)))

RECURSIVE SqDevTo(_, _, _)
SqDevTo(col, m, n) ==
    IF n = 0 THEN Zero
    ELSE RAdd(SqDevTo(col, m, n - 1), RMul(RSub(col[n].q, m), RSub(col[n].q, m)))

\* The square of Series.std(): the sample variance (ddof = 1).
Variance(col) == RDiv(SqDevTo(col, Mean(col), Len(col)), RInt(Len(col) - 1))

\* Series.std() > 0, decided on the variance (the square root is monotone)
StdPositive(col) == RGt(Variance(col), Zero)

RECURSIVE CoDevTo(_, _, _, _, _)
CoDevTo(xs, mx, ys, my, n) ==
    IF n = 0 THEN Zero
    ELSE RAdd(CoDevTo(xs, mx, ys, my, n - 1),
              RMul(RSub(xs[n].q, mx), RSub(ys[n].q, my)))

\* Series.corr (Pearson r), kept as its sign and its square:
\* r = cov / sqrt(var_x * var_y).
Corr(xs, ys) ==
    LET cov == CoDevTo(xs, Mean(xs), ys, Mean(ys), Len(xs))
        den == RMul(SqDevTo(xs, Mean(xs), Len(xs)), SqDevTo(ys, Mean(ys), Len(ys)))
    IN  [sign |-> Sign(cov.num), r2 |-> RDiv(RMul(cov, cov), den)]

\* correlation > t for a threshold t > 0 given as its square t2
CorrAbove(r, t2) == r.sign > 0 /\ RGt(r.r2, t2)

RECURSIVE TrendNumTo(_, _, _)
TrendNumTo(col, mx, n) ==
    IF n = 0 THEN Zero
    ELSE RAdd(TrendNumTo(col, mx, n - 1), RMul(RSub(RInt(n - 1), mx), col[n].q))

RECURSIVE TrendDenTo(_, _)
TrendDenTo(mx, n) ==
    IF n = 0 THEN Zero
    ELSE RAdd(TrendDenTo(mx, n - 1), RMul(RSub(RInt(n - 1), mx), RSub(RInt(n - 1), mx)))

\* np.polyfit(np.arange(len(col)), col, 1)[0]: the least-squares slope
Slope(col) ==
    LET mx == RDiv(RInt(Len(col) - 1), RInt(2))
    IN  RDiv(TrendNumTo(col, mx, Len(col)), TrendDenTo(mx, Len(col)))

\* Series.iloc[0], Series.iloc[-1]
First(col) == col[1].q
Last(col) == col[Len(col)].q

\* ------------------------------------------------------------------ inputs
BaseSheet == "Skenario Base"
OptSheet == "Skenario Optimistis"
PesSheet == "Skenario Pesimistis"
BeSheet == "Analisis Break-Even"
ScenarioSheets == {BaseSheet, OptSheet, PesSheet}
AllSheets == ScenarioSheets \cup {BeSheet}

N(n) == Num(RInt(n))

\* The cell values a varied amount cell takes: empty, or a small signed integer.
AmountVals == {None} \cup {N(n) : n \in (0 - 1)..MaxAmt}

\* The cells of one row, columns B.. onwards, holding the values of xs.
RowCells(row, xs) ==
    [rc \in {<<row, FirstCol + i - 1>> : i \in DOMAIN xs} |-> xs[rc[2] - FirstCol + 1]]

\* A scenario sheet with the six rows the script reads.
MkSheet(months, opening, inflows, outflows, net, closing) ==
    RowCells(MonthRow, months) @@ RowCells(OpeningRow, opening)
    @@ RowCells(InflowsRow, inflows) @@ RowCells(OutflowsRow, outflows)
    @@ RowCells(NetCfRow, net) @@ RowCells(ClosingRow, closing)

\* A break-even sheet with the four cells the script reads.
MkBeSheet(transactions, revenue, current, margin) ==
    (<<BeTransactionsRow, BeCol>> :> transactions) @@ (<<BeRevenueRow, BeCol>> :> revenue)
    @@ (<<CurrentRevenueRow, BeCol>> :> current) @@ (<<SafetyMarginRow, BeCol>> :> margin)

Periods == DOMAIN ColRange

\* a, b, c, a, b, c, ... over the periods
Cyc(a, b, c) == [i \in Periods |-> <<a, b, c>>[((i - 1) % 3) + 1]]

\* a, then b in every later period
Step(a, b) == [i \in Periods |-> IF i = 1 THEN a ELSE b]

\* xs with its last period replaced by v
WithLast(xs, v) == [i \in Periods |-> IF i = Len(xs) THEN v ELSE xs[i]]

NomMonths == [i \in Periods |-> IF i = 2 THEN None ELSE Str("M" \o ToString(i))]
NomInflows == Cyc(N(4), N(5), N(6))
NomOutflows == Cyc(N(3), N(5), N(4))
NomNet == Cyc(N(1), N(0), N(2))
NomOpening == [i \in Periods |-> N(i - 1)]
NomClosing == [i \in Periods |-> N(i)]

NomBase == MkSheet(NomMonths, NomOpening, NomInflows, NomOutflows, NomNet, NomClosing)
NomOpt == MkSheet(NomMonths, NomOpening, NomInflows, NomOutflows,
                  Cyc(N(2), N(1), N(3)), WithLast(NomClosing, N(12)))
NomPes == MkSheet(NomMonths, NomOpening, NomInflows, NomOutflows,
                  Cyc(N(0), N(0 - 1), N(1)), WithLast(NomClosing, N(6)))
NomBe == MkBeSheet(N(900), N(45), N(54), Num(Rat(1, 5)))

\* The values tried in the break-even sheet's safety-margin cell.
MarginVals == {None, Num(Rat(1, 5)), Num(Rat(3, 20)), Num(Rat(1, 10)), Num(Rat(1, 20)),
               Str("n/a")}

\* A workbook: its sheets by name.
Workbook(base, opt, pes, be) ==
    (BaseSheet :> base) @@ (OptSheet :> opt) @@ (PesSheet :> pes) @@ (BeSheet :> be)

Restrict(f, S) == [x \in S |-> f[x]]

\* A workbook whose base inflows and outflows vary.
FlowWorkbook(a, b, c, o1, o2) ==
    Workbook(MkSheet(NomMonths, NomOpening, Cyc(a, b, c), Step(o1, o2), NomNet, NomClosing),
             NomOpt, NomPes, NomBe)

\* A workbook whose closing balances vary: the base ones in every period, the
\* optimistic and pessimistic ones in the last.
BalanceWorkbook(a, b, c, x, y) ==
    Workbook(MkSheet(NomMonths, NomOpening, NomInflows, NomOutflows, NomNet, Cyc(a, b, c)),
             RowCells(ClosingRow, WithLast(NomClosing, x)) @@ NomOpt,
             RowCells(ClosingRow, WithLast(NomClosing, y)) @@ NomPes, NomBe)

\* The nominal workbook with only the sheets of S.
SheetWorkbook(S) == Restrict(Workbook(NomBase, NomOpt, NomPes, NomBe), S)

\* The nominal workbook with two break-even cells varied.
BreakEvenWorkbook(t, m) == Workbook(NomBase, NomOpt, NomPes, MkBeSheet(t, N(45), N(54), m))

\* Sheets of distinct cell values (so that a cell read from the wrong row or
\* column shows), one column wider on each side than the range the script reads.
ReadRows == {MonthRow, OpeningRow, InflowsRow, OutflowsRow, NetCfRow, ClosingRow}
CodedCells == ReadRows \X ((FirstCol - 1)..EndCol)

CodedValue(k, rc) ==
    IF rc[1] = MonthRow THEN Str("S" \o ToString(k) \o "C" \o ToString(rc[2]))
    ELSE N(10000 * k + 100 * rc[1] + rc[2])

\* The coded sheet number k with value v in the cells of H.
CodedSheet(k, H, v) == [rc \in CodedCells |-> IF rc \in H THEN v ELSE CodedValue(k, rc)]

CodedWorkbook(H, v) ==
    Workbook(CodedSheet(1, H, v), CodedSheet(2, H, v), CodedSheet(3, H, v), NomBe)

RECURSIVE SubsetsUpTo(_, _)
SubsetsUpTo(S, k) ==
    IF k = 0 THEN {{}}
    ELSE LET P == SubsetsUpTo(S, k - 1) IN P \cup {p \cup {x} : p \in P, x \in S}

\* The columns in which SpecExtract empties cells: the two ends of the range
\* the script reads, their neighbours on both sides, and one in the middle.
HoleCols == {FirstCol - 1, FirstCol, FirstCol + 1, FirstCol + 4, EndCol - 1, EndCol}
HoleCells == ReadRows \X HoleCols

\* ------------------------------------------------------------------- state
VARIABLES
    disk,            \* <<>>: no cafe_cashflow_bekasi.xlsx; <<w>>: the file holds workbook w
    pc,              \* the section of the script that runs next
    exit_status,     \* <<>> while the script runs, then <<its exit status>>
    console,         \* the messages printed so far, by kind
    files,           \* the output files written
    failed,          \* the outputs whose own rendering or writing raised
    zero_divs,       \* the divisions evaluated with a zero divisor, by place
    wb,              \* the loaded workbook
    base_df, optimistic_df, pessimistic_df,
    avg_inflows, avg_outflows, avg_net_cf, total_inflows, total_outflows,
    growth_rate,
    expense_ratio,   \* the value printed as "Expense Ratio" (line 164)
    scenarios_comparison, best_case, worst_case, base_case, risk_range,
    scenario_spread, \* the value printed as "Scenario Spread" (line 216)
    volatility,      \* base_, opt_ and pes_volatility, squared
    correlation, trend,
    break_even,      \* the break-even cells read and the status derived
    base_growth, summary_df, combined_df

input_vars == <<disk>>
run_vars == <<pc, exit_status, console>>
output_vars == <<files, failed, base_growth, summary_df, combined_df>>
frame_vars == <<wb, base_df, optimistic_df, pessimistic_df>>
stats_vars == <<avg_inflows, avg_outflows, avg_net_cf, total_inflows, total_outflows,
                growth_rate, expense_ratio>>
compare_vars == <<scenarios_comparison, best_case, worst_case, base_case, risk_range,
                  scenario_spread>>
analysis_vars == <<volatility, correlation, trend>>
vars == <<input_vars, run_vars, output_vars, frame_vars, stats_vars, compare_vars,
          analysis_vars, break_even, zero_divs>>

\* The state as the interpreter starts the script on the file system `d`.
Start(d) ==
    /\ disk = d
    /\ pc = "check_file"
    /\ exit_status = <<>>
    /\ console = <<>>
    /\ files = {}
    /\ failed = {}
    /\ zero_divs = {}
    /\ wb = <<>>
    /\ base_df = <<>> /\ optimistic_df = <<>> /\ pessimistic_df = <<>>
    /\ avg_inflows = <<>> /\ avg_outflows = <<>> /\ avg_net_cf = <<>>
    /\ total_inflows = <<>> /\ total_outflows = <<>>
    /\ growth_rate = <<>> /\ expense_ratio = <<>>
    /\ scenarios_comparison = <<>>
    /\ best_case = <<>> /\ worst_case = <<>> /\ base_case = <<>> /\ risk_range = <<>>
    /\ scenario_spread = <<>>
    /\ volatility = <<>> /\ correlation = <<>> /\ trend = <<>>
    /\ break_even = <<>>
    /\ base_growth = <<>> /\ summary_df = <<>> /\ combined_df = <<>>

\* The file is missing, or holds one of the workbooks above.
Init ==
    \/ Start(<<>>)
    \/ \E a \in AmountVals, b \in AmountVals, c \in AmountVals,
          o1 \in AmountVals, o2 \in AmountVals :
          \/ Start(<<FlowWorkbook(a, b, c, o1, o2)>>)
          \/ Start(<<BalanceWorkbook(a, b, c, o1, o2)>>)
    \/ \E S \in SUBSET AllSheets : Start(<<SheetWorkbook(S)>>)
    \/ \E t \in {None, N(900), Str("?")}, m \in MarginVals :
          Start(<<BreakEvenWorkbook(t, m)>>)

\* The file holds a coded workbook with up to MaxEmpty empty cells, or with one
\* cell holding a falsy value that is not None, or with scenario sheets missing.
InitExtract ==
    \/ Start(<<>>)
    \/ \E H \in SubsetsUpTo(HoleCells, MaxEmpty) : Start(<<CodedWorkbook(H, None)>>)
    \/ \E rc \in CodedCells, v \in {N(0), Str("")} : Start(<<CodedWorkbook({rc}, v)>>)
    \/ \E S \in SUBSET ScenarioSheets :
          Start(<<Restrict(CodedWorkbook({}, None), S \cup {BeSheet})>>)

\* ----------------------------------------------------------------- actions
\* Mutant of CheckFile: the missing file is reported, but the exit is exit()
\* (status 0).
CheckFileExitZero ==
    /\ pc = "check_file"
    /\ IF disk = <<>>
       THEN /\ console' = Append(console, "ERROR_FILE_NOT_FOUND")
            /\ exit_status' = <<0>>
            /\ pc' = "done"
       ELSE /\ console' = Append(console, "LOADING")
            /\ exit_status' = exit_status
            /\ pc' = "load"
    /\ UNCHANGED <<input_vars, output_vars, frame_vars, stats_vars, compare_vars,
                   analysis_vars, break_even, zero_divs>>

\* Lines 56-63: os.path.exists(excel_file), else exit(1).
CheckFile ==
    /\ pc = "check_file"
    /\ IF disk = <<>>
       THEN /\ console' = Append(console, "ERROR_FILE_NOT_FOUND")
            /\ exit_status' = <<1>>
            /\ pc' = "done"
       ELSE /\ console' = Append(console, "LOADING")
            /\ exit_status' = exit_status
            /\ pc' = "load"
    /\ UNCHANGED <<input_vars, output_vars, frame_vars, stats_vars, compare_vars,
                   analysis_vars, break_even, zero_divs>>

\* Line 70: wb = load_workbook(excel_file, data_only=True).
LoadWorkbook ==
    /\ pc = "load"
    /\ wb' = disk
    /\ pc' = "extract"
    /\ UNCHANGED <<input_vars, exit_status, console, output_vars, base_df, optimistic_df,
                   pessimistic_df, stats_vars, compare_vars, analysis_vars, break_even,
                   zero_divs>>

\* wb[sheet_name] raises KeyError for a sheet the workbook does not hold.
HasSheet(w, name) == name \in DOMAIN w

\* Mutant of ExtractScenarios: the handler reports the error without exit(1),
\* and the script runs on.
ExtractScenariosNoAbort ==
    /\ pc = "extract"
    /\ LET w == wb[1]
           ok1 == HasSheet(w, BaseSheet)
           ok2 == ok1 /\ HasSheet(w, OptSheet)
           ok3 == ok2 /\ HasSheet(w, PesSheet)
       IN  /\ base_df' = IF ok1 THEN <<extract_scenario_data(w[BaseSheet])>> ELSE base_df
           /\ optimistic_df' =
                 IF ok2 THEN <<extract_scenario_data(w[OptSheet])>> ELSE optimistic_df
           /\ pessimistic_df' =
                 IF ok3 THEN <<extract_scenario_data(w[PesSheet])>> ELSE pessimistic_df
           /\ console' = Append(console, IF ok3 THEN "EXTRACTED" ELSE "ERROR_EXTRACTING")
           /\ exit_status' = exit_status
           /\ pc' = "statistics"
    /\ UNCHANGED <<input_vars, output_vars, wb, stats_vars, compare_vars, analysis_vars,
                   break_even, zero_divs>>

\* Lines 119-131: the three extractions in one try; the first missing sheet
\* raises, the assignments before it stand, and the handler exits with 1.
ExtractScenarios ==
    /\ pc = "extract"
    /\ LET w == wb[1]
           ok1 == HasSheet(w, BaseSheet)
           ok2 == ok1 /\ HasSheet(w, OptSheet)
           ok3 == ok2 /\ HasSheet(w, PesSheet)
       IN  /\ base_df' = IF ok1 THEN <<extract_scenario_data(w[BaseSheet])>> ELSE base_df
           /\ optimistic_df' =
                 IF ok2 THEN <<extract_scenario_data(w[OptSheet])>> ELSE optimistic_df
           /\ pessimistic_df' =
                 IF ok3 THEN <<extract_scenario_data(w[PesSheet])>> ELSE pessimistic_df
           /\ IF ok3
              THEN /\ console' = Append(console, "EXTRACTED")
                   /\ exit_status' = exit_status
                   /\ pc' = "statistics"
              ELSE /\ console' = Append(console, "ERROR_EXTRACTING")
                   /\ exit_status' = <<1>>
                   /\ pc' = "done"
    /\ UNCHANGED <<input_vars, output_vars, wb, stats_vars, compare_vars, analysis_vars,
                   break_even, zero_divs>>

\* x / 1_000_000 for an amount x: amounts are carried in millions of rupiah (a
\* cell the model writes as n holds n * 1,000,000), so the quotient is the
\* model's number itself.
InMillions(x) == x

\* Mutant of GrowthRateGuard: the guard tests "!= 0" instead of "> 0".
GrowthRateGuardNonzero(col) == First(col).num # 0

\* Lines 152-155: the guard of the revenue growth rate.
GrowthRateGuard(col) == RGt(First(col), Zero)

\* Lines 151-155: growth of the last value over the first, in percent.
GrowthRate(col) ==
    IF GrowthRateGuard(col)
    THEN RMul(RSub(RDiv(Last(col), First(col)), One), Hundred)
    ELSE Zero

\* (avg_outflows/avg_inflows*100), as lines 164 and 398 both evaluate it.
ExpenseRatio(ao, ai) == RMul(RDiv(ao, ai), Hundred)

\* {place} when a division is evaluated there with a zero divisor, else {}.
ZeroDivisor(place, evaluated, divisor) ==
    IF evaluated /\ divisor.num = 0 /\ divisor.den # 0 THEN {place} ELSE {}

\* Lines 133-164: the base case's key metrics and their report.
DescriptiveStatistics ==
    /\ pc = "statistics"
    /\ LET df == base_df[1]
           ai == Mean(df.Total_Inflows)
           ao == Mean(df.Total_Outflows)
       IN  /\ avg_inflows' = <<ai>>
           /\ avg_outflows' = <<ao>>
           /\ avg_net_cf' = <<Mean(df.Net_Cash_Flow)>>
           /\ total_inflows' = <<Sum(df.Total_Inflows)>>
           /\ total_outflows' = <<Sum(df.Total_Outflows)>>
           /\ growth_rate' = <<GrowthRate(df.Total_Inflows)>>
           /\ expense_ratio' = <<ExpenseRatio(ao, ai)>>
           /\ zero_divs' = zero_divs
                 \cup ZeroDivisor("growth_rate", GrowthRateGuard(df.Total_Inflows),
                                  First(df.Total_Inflows))
                 \cup ZeroDivisor("expense_ratio_report", TRUE, ai)
    /\ console' = Append(console, "KEY_METRICS")
    /\ pc' = "comparison"
    /\ UNCHANGED <<input_vars, exit_status, output_vars, frame_vars, compare_vars,
                   analysis_vars, break_even>>

\* One column of scenarios_comparison (lines 179-199), in millions.
ComparisonColumn(df) ==
    <<InMillions(Last(df.Closing_Balance)),
      InMillions(Sum(df.Total_Inflows)),
      InMillions(Sum(df.Total_Outflows)),
      InMillions(Sum(df.Net_Cash_Flow)),
      InMillions(Mean(df.Net_Cash_Flow))>>

\* Line 209.
RiskRange(best, worst) == RSub(best, worst)

\* (risk_range/base_case*100), as line 216 evaluates it.
ScenarioSpread(range, base) == RMul(RDiv(range, base), Hundred)

\* Lines 166-216: the comparison table and the risk metrics.
ScenarioComparison ==
    /\ pc = "comparison"
    /\ LET best == Last(optimistic_df[1].Closing_Balance)
           worst == Last(pessimistic_df[1].Closing_Balance)
           base == Last(base_df[1].Closing_Balance)
       IN  /\ scenarios_comparison' =
                 <<[Optimistic |-> ComparisonColumn(optimistic_df[1]),
                    Base_Case |-> ComparisonColumn(base_df[1]),
                    Pessimistic |-> ComparisonColumn(pessimistic_df[1])]>>
           /\ best_case' = <<best>>
           /\ worst_case' = <<worst>>
           /\ base_case' = <<base>>
           /\ risk_range' = <<RiskRange(best, worst)>>
           /\ scenario_spread' = <<ScenarioSpread(RiskRange(best, worst), base)>>
           /\ zero_divs' = zero_divs
                 \cup ZeroDivisor("scenario_spread", TRUE, base)
    /\ console' = Append(console, "RISK_ANALYSIS")
    /\ pc' = "statistical"
    /\ UNCHANGED <<input_vars, exit_status, output_vars, frame_vars, stats_vars,
                   analysis_vars, break_even>>

\* (Series.std() / 1_000_000) squared
Volatility(col) == InMillions(InMillions(Variance(col)))

\* Mutant of CorrelationGuard: "or" instead of "and".
CorrelationGuardEither(xs, ys) == StdPositive(xs) \/ StdPositive(ys)

\* Line 234: both standard deviations are positive.
CorrelationGuard(xs, ys) == StdPositive(xs) /\ StdPositive(ys)

\* Lines 237-242: the message for a computed correlation (0.8 and 0.5, squared).
CorrelationMessage(r) ==
    IF CorrAbove(r, Rat(16, 25)) THEN "CORRELATION_STRONG"
    ELSE IF CorrAbove(r, Rat(1, 4)) THEN "CORRELATION_MODERATE"
    ELSE "CORRELATION_WEAK"

\* Lines 218-254: volatility, correlation and trend.
StatisticalAnalysis ==
    /\ pc = "statistical"
    /\ LET df == base_df[1]
           r == Corr(df.Total_Inflows, df.Total_Outflows)
       IN  /\ volatility' = <<[base |-> Volatility(df.Net_Cash_Flow),
                               opt |-> Volatility(optimistic_df[1].Net_Cash_Flow),
                               pes |-> Volatility(pessimistic_df[1].Net_Cash_Flow)]>>
           /\ IF CorrelationGuard(df.Total_Inflows, df.Total_Outflows)
              THEN /\ correlation' = <<r>>
                   /\ console' = Append(console, CorrelationMessage(r))
              ELSE /\ correlation' = correlation
                   /\ console' = Append(console, "CORRELATION_CANNOT_CALCULATE")
           /\ trend' = IF Len(df.Month) > 1
                       THEN <<[inflow |-> Slope(df.Total_Inflows),
                               outflow |-> Slope(df.Total_Outflows)]>>
                       ELSE trend
    /\ pc' = "break_even"
    /\ UNCHANGED <<input_vars, exit_status, output_vars, frame_vars, stats_vars,
                   compare_vars, break_even, zero_divs>>

\* The first k of the four values that the report prints before a value that
\* is a string raises (in "/1_000_000", or in a float format).
RECURSIVE PrintedBefore(_, _)
PrintedBefore(vals, k) ==
    IF k > Len(vals) \/ vals[k].t = "str" THEN k - 1 ELSE PrintedBefore(vals, k + 1)

\* Lines 274-282: the status for a safety margin (0.15 and 0.08).
SafetyStatus(margin) ==
    IF RGt(margin, Rat(15, 100)) THEN "AMAN"
    ELSE IF RGt(margin, Rat(8, 100)) THEN "CUKUP AMAN"
    ELSE "PERLU PERHATIAN"

RECURSIVE Repeat(_, _)
Repeat(x, n) == IF n = 0 THEN <<>> ELSE Append(Repeat(x, n - 1), x)

\* Mutant of BreakEvenAnalysis: the sheet lookup stands before the try, so a
\* missing sheet ends the script with a traceback and exit status 1.
BreakEvenLookupUncaught ==
    /\ pc = "break_even"
    /\ IF HasSheet(wb[1], BeSheet)
       THEN LET ws_be == wb[1][BeSheet]
                be_revenue == OrZero(CellValue(ws_be, BeRevenueRow, BeCol))
                be_transactions == OrZero(CellValue(ws_be, BeTransactionsRow, BeCol))
                current_revenue == OrZero(CellValue(ws_be, CurrentRevenueRow, BeCol))
                safety_margin == OrZero(CellValue(ws_be, SafetyMarginRow, BeCol))
                printed == <<be_revenue, be_transactions, current_revenue, safety_margin>>
                n == PrintedBefore(printed, 1)
                raised == n < Len(printed)
            IN  /\ break_even' =
                      <<[be_revenue |-> be_revenue, be_transactions |-> be_transactions,
                         current_revenue |-> current_revenue, safety_margin |-> safety_margin,
                         status |-> IF raised THEN "" ELSE SafetyStatus(safety_margin.q)]>>
                /\ console' = console \o <<"BREAK_EVEN_METRICS">> \o Repeat("BREAK_EVEN_LINE", n)
                      \o <<IF raised THEN "BREAK_EVEN_UNAVAILABLE" ELSE "BREAK_EVEN_STATUS">>
                /\ exit_status' = exit_status
                /\ pc' = "visualizations"
       ELSE /\ break_even' = break_even
            /\ console' = console
            /\ exit_status' = <<1>>
            /\ pc' = "done"
    /\ UNCHANGED <<input_vars, output_vars, frame_vars, stats_vars, compare_vars,
                   analysis_vars, zero_divs>>

\* Lines 256-286: the break-even cells, in one try whose handler only reports.
\* status "" stands for the name not being bound.
BreakEvenAnalysis ==
    /\ pc = "break_even"
    /\ IF HasSheet(wb[1], BeSheet)
       THEN LET ws_be == wb[1][BeSheet]
                be_revenue == OrZero(CellValue(ws_be, BeRevenueRow, BeCol))
                be_transactions == OrZero(CellValue(ws_be, BeTransactionsRow, BeCol))
                current_revenue == OrZero(CellValue(ws_be, CurrentRevenueRow, BeCol))
                safety_margin == OrZero(CellValue(ws_be, SafetyMarginRow, BeCol))
                printed == <<be_revenue, be_transactions, current_revenue, safety_margin>>
                n == PrintedBefore(printed, 1)
                raised == n < Len(printed)
            IN  /\ break_even' =
                      <<[be_revenue |-> be_revenue, be_transactions |-> be_transactions,
                         current_revenue |-> current_revenue, safety_margin |-> safety_margin,
                         status |-> IF raised THEN "" ELSE SafetyStatus(safety_margin.q)]>>
                /\ console' = console \o <<"BREAK_EVEN_METRICS">> \o Repeat("BREAK_EVEN_LINE", n)
                      \o <<IF raised THEN "BREAK_EVEN_UNAVAILABLE" ELSE "BREAK_EVEN_STATUS">>
       ELSE /\ break_even' = break_even
            /\ console' = Append(console, "BREAK_EVEN_UNAVAILABLE")
    /\ pc' = "visualizations"
    /\ UNCHANGED <<input_vars, exit_status, output_vars, frame_vars, stats_vars,
                   compare_vars, analysis_vars, zero_divs>>

Dashboard == "cashflow_analysis_dashboard.png"
SummaryFile == "analysis_summary.csv"
ScenarioFile == "scenario_comparison.csv"
Outputs == {Dashboard, SummaryFile, ScenarioFile}

\* Mutant of GrowthDefined: the previous balance is not tested.
GrowthDefinedUnguarded(col, i) == i > 1

\* Line 332: the guard of one month-over-month growth (i counts from 1 here).
GrowthDefined(col, i) == i > 1 /\ RGt(col[i - 1].q, Zero)

\* Lines 330-337: base_growth, one entry per period.
MonthOverMonthGrowth(col) ==
    [i \in 1..Len(col) |->
        IF GrowthDefined(col, i)
        THEN RMul(RSub(RDiv(col[i].q, col[i - 1].q), One), Hundred)
        ELSE Zero]

\* Lines 288-371: the dashboard, in one try whose handler only reports. The
\* figure may fail to render before base_growth is built (lines 295-326), or
\* later, up to plt.savefig (lines 339-367).
Visualizations ==
    /\ pc = "visualizations"
    /\ \E outcome \in {"render_error", "save_error", "saved"} :
          /\ base_growth' =
                IF outcome = "render_error" THEN base_growth
                ELSE <<MonthOverMonthGrowth(base_df[1].Closing_Balance)>>
          /\ zero_divs' =
                IF outcome = "render_error" THEN zero_divs
                ELSE zero_divs \cup UNION
                       {ZeroDivisor("base_growth",
                                    GrowthDefined(base_df[1].Closing_Balance, i),
                                    base_df[1].Closing_Balance[IF i > 1 THEN i - 1 ELSE i].q)
                          : i \in Periods}
          /\ IF outcome = "saved"
             THEN /\ files' = files \cup {Dashboard}
                  /\ failed' = failed
                  /\ console' = Append(console, "DASHBOARD_SAVED")
             ELSE /\ files' = files
                  /\ failed' = failed \cup {Dashboard}
                  /\ console' = Append(console, "ERROR_VISUALIZATIONS")
    /\ pc' = "export"
    /\ UNCHANGED <<input_vars, exit_status, summary_df, combined_df, frame_vars,
                   stats_vars, compare_vars, analysis_vars, break_even>>

\* A float in a ".1f" format: rounded to one decimal, ties to even; inf and
\* nan print as such.
Format1(x) ==
    IF ~IsFinite(x) THEN x
    ELSE LET n == 10 * x.num
             fl == n \div x.den
             rem == n - fl * x.den
             up == 2 * rem > x.den \/ (2 * rem = x.den /\ fl % 2 = 1)
         IN  Rat(IF up THEN fl + 1 ELSE fl, 10)

\* Lines 380-405: the Value column of summary_df.
SummaryValues ==
    [Avg_Monthly_Revenue |-> Format1(InMillions(avg_inflows[1])),
     Avg_Monthly_Expenses |-> Format1(InMillions(avg_outflows[1])),
     Avg_Net_Cash_Flow |-> Format1(InMillions(avg_net_cf[1])),
     Revenue_Growth_Rate |-> Format1(growth_rate[1]),
     Expense_Ratio |-> Format1(ExpenseRatio(avg_outflows[1], avg_inflows[1])),
     Final_Balance_Base |-> Format1(InMillions(base_case[1])),
     Final_Balance_Best |-> Format1(InMillions(best_case[1])),
     Final_Balance_Worst |-> Format1(InMillions(worst_case[1])),
     Risk_Range |-> Format1(InMillions(risk_range[1]))]

\* Lines 412-420: combined_df.
CombinedFrame ==
    [Month |-> base_df[1].Month,
     Base_Inflows |-> base_df[1].Total_Inflows,
     Base_Outflows |-> base_df[1].Total_Outflows,
     Base_NetCF |-> base_df[1].Net_Cash_Flow,
     Base_Balance |-> base_df[1].Closing_Balance,
     Opt_Balance |-> optimistic_df[1].Closing_Balance,
     Pes_Balance |-> pessimistic_df[1].Closing_Balance]

\* Lines 373-427: both tables, in ONE try whose handler only reports: when
\* summary_df.to_csv raises (line 408), lines 409-424 are skipped.
ExportSummary ==
    /\ pc = "export"
    /\ summary_df' = <<SummaryValues>>
    /\ zero_divs' = zero_divs \cup ZeroDivisor("expense_ratio_summary", TRUE, avg_inflows[1])
    /\ \E outcome \in {"summary_error", "scenario_error", "exported"} :
          /\ combined_df' = IF outcome = "summary_error" THEN combined_df ELSE <<CombinedFrame>>
          /\ files' = files
                \cup (IF outcome = "summary_error" THEN {} ELSE {SummaryFile})
                \cup (IF outcome = "exported" THEN {ScenarioFile} ELSE {})
          /\ failed' = failed
                \cup (IF outcome = "summary_error" THEN {SummaryFile} ELSE {})
                \cup (IF outcome = "scenario_error" THEN {ScenarioFile} ELSE {})
          /\ console' = console
                \o (IF outcome = "summary_error" THEN <<>> ELSE <<"SUMMARY_EXPORTED">>)
                \o (IF outcome = "exported" THEN <<"SCENARIO_EXPORTED">>
                    ELSE <<"ERROR_EXPORTING">>)
    /\ pc' = "completion"
    /\ UNCHANGED <<input_vars, exit_status, base_growth, frame_vars, stats_vars,
                   compare_vars, analysis_vars, break_even>>

\* Lines 429-439: the closing banner; the script ends and the interpreter
\* exits with status 0.
Completion ==
    /\ pc = "completion"
    /\ console' = Append(console, "ANALYSIS_COMPLETE")
    /\ exit_status' = <<0>>
    /\ pc' = "done"
    /\ UNCHANGED <<input_vars, output_vars, frame_vars, stats_vars, compare_vars,
                   analysis_vars, break_even, zero_divs>>

Next ==
    \/ CheckFile
    \/ LoadWorkbook
    \/ ExtractScenarios
    \/ DescriptiveStatistics
    \/ ScenarioComparison
    \/ StatisticalAnalysis
    \/ BreakEvenAnalysis
    \/ Visualizations
    \/ ExportSummary
    \/ Completion

Spec == Init /\ [][Next]_vars

NextExtract == CheckFile \/ LoadWorkbook \/ ExtractScenarios

SpecExtract == InitExtract /\ [][NextExtract]_vars

\* ------------------------------------------------------------------ claims
FilePresent == disk # <<>>
ScenariosPresent == FilePresent /\ ScenarioSheets \subseteq DOMAIN disk[1]
Printed(msg) == \E i \in DOMAIN console : console[i] = msg
Finished == pc = "done"

\* x = (b/a - 1) * 100 for finite rationals a # 0 and b, by cross-multiplication
IsGrowthOf(x, a, b) ==
    /\ x.den > 0
    /\ x.num * (b.den * a.num) = 100 * (b.num * a.den - a.num * b.den) * x.den

\* x = (n/d) * 100 for finite rationals n and d # 0, by cross-multiplication
IsPercentOf(x, n, d) ==
    /\ x.den > 0
    /\ x.num * (n.den * d.num) = 100 * (n.num * d.den) * x.den

\* C1: the run exits with status 1 when the input file is missing or a scenario
\* sheet cannot be extracted; in every other run, whatever fails in the
\* break-even, chart or export stage is reported, the completion banner is
\* printed and the exit status is 0.
C1_ExitStatus ==
    /\ (exit_status # <<>>) <=> Finished
    /\ Finished =>
         /\ ~ScenariosPresent => exit_status = <<1>> /\ ~Printed("ANALYSIS_COMPLETE")
         /\ ~FilePresent => Printed("ERROR_FILE_NOT_FOUND")
         /\ FilePresent /\ ~ScenariosPresent => Printed("ERROR_EXTRACTING")
         /\ ScenariosPresent =>
              /\ exit_status = <<0>>
              /\ console[Len(console)] = "ANALYSIS_COMPLETE"
              /\ Dashboard \in failed => Printed("ERROR_VISUALIZATIONS")
              /\ failed \cap {SummaryFile, ScenarioFile} # {} => Printed("ERROR_EXPORTING")
              /\ (break_even = <<>> \/ break_even[1].status = "")
                    => Printed("BREAK_EVEN_UNAVAILABLE")

\* C1 witness: a finished run in which the break-even read, the chart and an
\* export all failed, with exit status 0.
C1_Witness ==
    /\ Finished /\ exit_status = <<0>>
    /\ Printed("BREAK_EVEN_UNAVAILABLE")
    /\ Dashboard \in failed /\ ScenarioFile \in failed

\* C2: in a run that completes, every one of the three outputs was either
\* written or failed itself: none is skipped because another one failed.
C2_OutputsIndependent ==
    Finished /\ exit_status = <<0>> => \A o \in Outputs : o \in files \/ o \in failed

\* C3: with the file present and any scenario sheet missing, the run never
\* gets past extraction: no comparison, no chart series, no table and no file
\* is ever produced, and the run ends with exit status 1.
C3_MissingSheetAborts ==
    FilePresent /\ ~ScenariosPresent =>
        /\ pc \in {"check_file", "load", "extract", "done"}
        /\ scenarios_comparison = <<>> /\ risk_range = <<>>
        /\ base_growth = <<>> /\ summary_df = <<>> /\ combined_df = <<>>
        /\ files = {}
        /\ Finished => exit_status = <<1>>

\* C3 witness: the run aborted on the third sheet, after two extractions.
C3_Witness ==
    /\ Finished /\ FilePresent /\ exit_status = <<1>>
    /\ DOMAIN disk[1] = AllSheets \ {PesSheet}
    /\ base_df # <<>> /\ optimistic_df # <<>> /\ pessimistic_df = <<>>

\* C4: with the three scenario sheets present and the break-even sheet
\* missing, the run completes with exit status 0, reports break-even as
\* unavailable, and (when no write fails) produces the chart and both tables.
C4_BreakEvenMissing ==
    Finished /\ ScenariosPresent /\ BeSheet \notin DOMAIN disk[1] =>
        /\ exit_status = <<0>>
        /\ Printed("BREAK_EVEN_UNAVAILABLE") /\ ~Printed("BREAK_EVEN_STATUS")
        /\ break_even = <<>>
        /\ Printed("ANALYSIS_COMPLETE")
        /\ failed = {} => files = Outputs

\* C4 witness: such a run, finished, with all three files written.
C4_Witness ==
    /\ Finished /\ ScenariosPresent /\ BeSheet \notin DOMAIN disk[1]
    /\ files = Outputs /\ Printed("BREAK_EVEN_UNAVAILABLE")

\* C5 as stated: growth_rate is (last/first - 1) * 100 whenever the first base
\* inflow is nonzero, and 0 when it is 0.
C5_GrowthRateNonzeroFirst ==
    growth_rate # <<>> =>
        LET f == First(base_df[1].Total_Inflows)
            l == Last(base_df[1].Total_Inflows)
        IN  IF f.num # 0 THEN IsGrowthOf(growth_rate[1], f, l) ELSE growth_rate[1] = Zero

\* C5 amended: growth_rate is (last/first - 1) * 100 whenever the first base
\* inflow is positive, and exactly 0 when it is 0 or negative, whatever the
\* later periods hold; no division by zero is evaluated for it.
C5_GrowthRatePositiveFirst ==
    growth_rate # <<>> =>
        LET f == First(base_df[1].Total_Inflows)
            l == Last(base_df[1].Total_Inflows)
        IN  /\ IF f.num > 0 THEN IsGrowthOf(growth_rate[1], f, l) ELSE growth_rate[1] = Zero
            /\ "growth_rate" \notin zero_divs

\* C5 witness: a positive first inflow of 1 and a last inflow of 2 gave 100,
\* with an empty (zero) cell in between.
C5_Witness ==
    /\ growth_rate = <<RInt(100)>>
    /\ First(base_df[1].Total_Inflows) = One
    /\ base_df[1].Total_Inflows[2] = N(0)

\* C6: risk_range is the optimistic minus the pessimistic final balance, and
\* scenario_spread is risk_range / base final balance * 100; when the base
\* final balance is 0 no spread is computed and no division is performed.
C6_ScenarioSpreadGuarded ==
    risk_range # <<>> =>
        /\ risk_range[1] = RSub(Last(optimistic_df[1].Closing_Balance),
                                Last(pessimistic_df[1].Closing_Balance))
        /\ IF base_case[1].num = 0
           THEN scenario_spread = <<>> /\ "scenario_spread" \notin zero_divs
           ELSE IsPercentOf(scenario_spread[1], risk_range[1], base_case[1])

\* C7: expense_ratio is mean(outflows)/mean(inflows) * 100, and when the mean
\* base inflow is 0 the division is performed neither for the console report
\* nor for the summary table.
C7_ExpenseRatioGuarded ==
    avg_inflows # <<>> =>
        IF avg_inflows[1].num = 0
        THEN /\ expense_ratio = <<>>
             /\ zero_divs \cap {"expense_ratio_report", "expense_ratio_summary"} = {}
        ELSE IsPercentOf(expense_ratio[1], avg_outflows[1], avg_inflows[1])

\* C8: base_growth has one entry per period; the first is 0, and for i > 0
\* the entry is (closing_i/closing_{i-1} - 1) * 100 when closing_{i-1} > 0 and
\* 0 otherwise: -100 for a balance of 0 after a positive one, 0 after a zero
\* or negative one. No division by zero is evaluated for it.
C8_MonthOverMonthGrowth ==
    base_growth # <<>> =>
        LET closing == base_df[1].Closing_Balance
            g == base_growth[1]
        IN  /\ Len(g) = Len(base_df[1].Month)
            /\ g[1] = Zero
            /\ \A i \in 2..Len(g) :
                  /\ closing[i - 1].q.num > 0 => IsGrowthOf(g[i], closing[i - 1].q, closing[i].q)
                  /\ closing[i - 1].q.num > 0 /\ closing[i].q.num = 0 => g[i] = RInt(0 - 100)
                  /\ closing[i - 1].q.num <= 0 => g[i] = Zero
            /\ "base_growth" \notin zero_divs

\* C8 witness: a balance of 0 after a positive one, then a positive one.
C8_Witness ==
    /\ base_growth # <<>>
    /\ \E i \in 2..(Len(base_growth[1]) - 1) :
          /\ base_df[1].Closing_Balance[i - 1].q.num > 0
          /\ base_df[1].Closing_Balance[i] = N(0)
          /\ base_df[1].Closing_Balance[i + 1].q.num > 0
          /\ base_growth[1][i] = RInt(0 - 100)
          /\ base_growth[1][i + 1] = Zero

\* The cell of sheet `name` of the file at (row, col), None when never written.
FileCell(name, row, col) ==
    IF <<row, col>> \in DOMAIN disk[1][name] THEN disk[1][name][<<row, col>>] ELSE None

\* What C9 says of the frame df extracted from sheet `name`.
ExtractedAsClaimed(df, name) ==
    /\ \A col \in {"Month", "Opening_Balance", "Total_Inflows", "Total_Outflows",
                   "Net_Cash_Flow", "Closing_Balance"} : Len(df[col]) = 9
    /\ \A i \in 1..9 :
          /\ df.Month[i].t # "none" /\ df.Month[i] # Str("")
          /\ FileCell(name, MonthRow, i + 1).t = "none"
                => df.Month[i] = Str("Month " \o ToString(i))
          /\ Truthy(FileCell(name, MonthRow, i + 1))
                => df.Month[i] = FileCell(name, MonthRow, i + 1)
          /\ \A rc \in {<<OpeningRow, "Opening_Balance">>, <<InflowsRow, "Total_Inflows">>,
                        <<OutflowsRow, "Total_Outflows">>, <<NetCfRow, "Net_Cash_Flow">>,
                        <<ClosingRow, "Closing_Balance">>} :
                /\ FileCell(name, rc[1], i + 1).t = "none" => df[rc[2]][i] = N(0)
                /\ Truthy(FileCell(name, rc[1], i + 1))
                      => df[rc[2]][i] = FileCell(name, rc[1], i + 1)

\* C9: every extracted scenario frame has exactly 9 periods, those of columns
\* 2-10 in column order; no label is empty (an empty label cell in column c
\* becomes "Month {c-1}"), and every empty amount cell becomes numeric 0.
C9_ExtractionShape ==
    /\ base_df # <<>> => ExtractedAsClaimed(base_df[1], BaseSheet)
    /\ optimistic_df # <<>> => ExtractedAsClaimed(optimistic_df[1], OptSheet)
    /\ pessimistic_df # <<>> => ExtractedAsClaimed(pessimistic_df[1], PesSheet)

\* C9 witness: the first label cell and the last inflow cell were empty.
C9_Witness ==
    /\ pessimistic_df # <<>>
    /\ FileCell(PesSheet, MonthRow, FirstCol) = None
    /\ FileCell(PesSheet, InflowsRow, EndCol - 1) = None
    /\ pessimistic_df[1].Month[1] = Str("Month 1")
    /\ pessimistic_df[1].Total_Inflows[9] = N(0)
    /\ pessimistic_df[1].Total_Inflows[8] = FileCell(PesSheet, InflowsRow, EndCol - 2)

IsConstant(col) == \A i \in DOMAIN col : col[i].q = col[1].q

====
